---- MODULE Spec2Model ----
(***************************************************************************)
(* Model of two render functions of iTwinUI-react:                         *)
(*   - HeaderButton (src/core/Header/HeaderButton.tsx)                     *)
(*   - TableCell    (src/core/Table/TableCell.tsx)                         *)
(*                                                                         *)
(* A JavaScript object is a TLA+ function from its own keys to values; a   *)
(* key that is missing or whose value is `undefined` is not in the DOMAIN. *)
(* A class string is the sequence of its class tokens.                     *)
(***************************************************************************)
EXTENDS Integers, Sequences, FiniteSets, TLC

VARIABLES
    props,      \* HeaderButton: the props the caller passed
    ref,        \* HeaderButton: the forwarded ref (an object; no key = null)
    element,    \* HeaderButton: the element returned by the render
    row,        \* TableCell: cell.row of the cells being rendered
    table,      \* TableCell: the props shared by the cells of the row
    rendered    \* TableCell: cellIndex -> what the render of that cell returned

vars == <<props, ref, element, row, table, rendered>>

(***************************************************************************)
(* Bounds of the model.                                                    *)
(***************************************************************************)
MaxMenuItems == 2
MaxCells == 3
MaxDepth == 2

(***************************************************************************)
(* JavaScript object helpers.                                              *)
(***************************************************************************)
EmptyObject == [k \in {} |-> 0]

Has(o, k) == k \in DOMAIN o

\* { ...a, ...b }: the keys of b win over the keys of a.
Spread(a, b) == [k \in (DOMAIN a) \cup (DOMAIN b) |-> IF k \in DOMAIN b THEN b[k] ELSE a[k]]

\* { key: value }, where an `undefined` value leaves the key out.
Field(k, v, defined) == IF defined THEN (k :> v) ELSE EmptyObject

\* const { k1, k2, ...rest } = o
Rest(o, ks) == [k \in (DOMAIN o) \ ks |-> o[k]]

\* !!o.k : every value the model gives to a key is an object (an array, even
\* an empty one, a function, an element), and every object is truthy.
Truthy(o, k) == Has(o, k)

\* classnames: cx({ token: cond, ... }, className). entries is a sequence of
\* <<token, cond>>; className is the caller's token sequence (<<>> if none).
cx(entries, className) ==
    LET on == SelectSeq(entries, LAMBDA e : e[2])
    IN  [i \in 1..Len(on) |-> on[i][1]] \o className

(***************************************************************************)
(* HeaderButton                                                            *)
(***************************************************************************)
isSplitButton(p) == Truthy(p, "menuItems") /\ Truthy(p, "onClick")

isDropdownButton(p) == Truthy(p, "menuItems")

\* React.isValidElement: an element object, as JSX creates it.
isValidElement(icon) == icon.valid

\* The destructuring of props.
Destructured == {"name", "description", "isActive", "className", "startIcon", "menuItems"}

isActiveOf(p) == IF Has(p, "isActive") THEN p.isActive ELSE FALSE

classNameOf(p) == IF Has(p, "className") THEN p.className ELSE <<>>

restOf(p) == Rest(p, Destructured)

\* startIcon: isValidElement(startIcon) ? cloneElement(startIcon, {className}) : undefined
StartIconUntouchedUnlessElement(p) ==
    IF Has(p, "startIcon")
    THEN "startIcon" :> (IF isValidElement(p.startIcon)
                         THEN [p.startIcon EXCEPT
                                  !.className = <<"iui-header-button-icon">> \o @]
                         ELSE p.startIcon)
    ELSE EmptyObject

startIconProp(p) ==
    IF Has(p, "startIcon") /\ isValidElement(p.startIcon)
    THEN "startIcon" :> [p.startIcon EXCEPT
                            !.className = <<"iui-header-button-icon">> \o @]
    ELSE EmptyObject

\* className: cx({...}, className)
ClassNameByMenuOnly(p) ==
    "className" :> cx(<< <<"iui-header-button", ~isDropdownButton(p)>>,
                         <<"iui-header-split-button", isDropdownButton(p)>>,
                         <<"iui-active", isActiveOf(p)>> >>,
                      classNameOf(p))

classNameProp(p) ==
    "className" :> cx(<< <<"iui-header-button", ~isSplitButton(p)>>,
                         <<"iui-header-split-button", isSplitButton(p)>>,
                         <<"iui-active", isActiveOf(p)>> >>,
                      classNameOf(p))

\* 'aria-current': isActive ? 'location' : undefined
AriaCurrentAlways(p) == "aria-current" :> "location"

ariaCurrentProp(p) == Field("aria-current", "location", isActiveOf(p))

\* children: <><div>{name}</div>{description && <div className=...>}</>
childrenProp(p) ==
    "children" :>
        ( << [tag |-> "div", className |-> <<>>, text |-> p.name] >>
          \o (IF Has(p, "description")
              THEN << [tag |-> "div", className |-> <<"iui-description">>,
                       text |-> p.description] >>
              ELSE <<>>) )

\* ref: ref
refProp(r) == IF Has(r, "current") THEN ("ref" :> r) ELSE EmptyObject

\* ...(!!menuItems && { menuItems })
MenuItemsWhenNonEmpty(p) ==
    Field("menuItems", IF Has(p, "menuItems") THEN p.menuItems ELSE <<>>,
          Has(p, "menuItems") /\ Len(p.menuItems) > 0)

menuItemsSpread(p) ==
    Field("menuItems", IF Has(p, "menuItems") THEN p.menuItems ELSE <<>>,
          Truthy(p, "menuItems"))

\* The object literal: later keys win.
buttonProps(p, r) ==
    Spread(Spread(Spread(Spread(Spread(Spread(Spread(
        startIconProp(p),
        "styleType" :> "borderless"),
        classNameProp(p)),
        ariaCurrentProp(p)),
        childrenProp(p)),
        refProp(r)),
        menuItemsSpread(p)),
        restOf(p))

\* The dispatch on the assembled props.
VariantDropdownFirst(bp) ==
    IF isDropdownButton(bp) THEN "DropdownButton"
    ELSE IF isSplitButton(bp) THEN "SplitButton"
    ELSE "Button"

Variant(bp) ==
    IF isSplitButton(bp) THEN "SplitButton"
    ELSE IF isDropdownButton(bp) THEN "DropdownButton"
    ELSE "Button"

NotRendered == [type |-> "none", props |-> EmptyObject]

\* The inputs of HeaderButton.
MenuLists ==
    { [i \in 1..n |-> [label |-> "item", index |-> i]] : n \in 0..MaxMenuItems }

Icons ==
    { [valid |-> TRUE, type |-> "svg", className |-> <<>>],
      [valid |-> TRUE, type |-> "img", className |-> <<"my-icon">>],
      [valid |-> FALSE, type |-> "project.png", className |-> <<>>] }

Optional(k, S) == {EmptyObject} \cup { k :> v : v \in S }

CallerChildren == << [tag |-> "span", className |-> <<>>, text |-> "custom"] >>

HeaderButtonInputs ==
    { Spread(Spread(Spread(Spread(Spread(Spread(Spread(Spread(Spread(
        "name" :> "Project A", d), a), c), s), m), o), st), ac), ch) :
        d \in Optional("description", {"0n00434"}),
        a \in Optional("isActive", BOOLEAN),
        c \in Optional("className", {<<"custom">>, <<"iui-active">>}),
        s \in Optional("startIcon", Icons),
        m \in Optional("menuItems", MenuLists),
        o \in Optional("onClick", {"handler"}),
        st \in Optional("styleType", {"cta"}),
        ac \in Optional("aria-current", {"page"}),
        ch \in Optional("children", {CallerChildren}) }

Refs == Optional("current", {"button"})

NoRow == [depth |-> 0, canExpand |-> FALSE, cells |-> <<>>]

NoTable == [tableHasSubRows |-> FALSE, isDisabled |-> FALSE, isTableResizing |-> FALSE,
            cellRenderer |-> {}]

InitHeader ==
    /\ props \in HeaderButtonInputs
    /\ ref \in Refs
    /\ element = NotRendered
    /\ row = NoRow
    /\ table = NoTable
    /\ rendered = <<>>

HeaderButton ==
    /\ element = NotRendered
    /\ element' = [type |-> Variant(buttonProps(props, ref)),
                   props |-> buttonProps(props, ref)]
    /\ UNCHANGED <<props, ref, row, table, rendered>>

(***************************************************************************)
(* TableCell                                                               *)
(***************************************************************************)
SELECTION_CELL_ID == "iui-table-checkbox-selector"

ColumnIds == {SELECTION_CELL_ID, "name", "age"}

\* column.cellClassName of the columns of the table.
cellClassName(id) == IF id = "name" THEN <<"name-cell">> ELSE <<>>

\* cell.column.id of the cell at the 0-based position i of the row.
columnId(r, i) == r.cells[i + 1]

\* Array.prototype.findIndex: the 0-based index of the first element that
\* satisfies the callback, -1 when there is none. The callback is given as
\* the set of the values it accepts.
findIndex(s, accepted) ==
    IF \E j \in 1..Len(s) : s[j] \in accepted
    THEN (CHOOSE j \in 1..Len(s) :
              s[j] \in accepted /\ \A k \in 1..(j - 1) : s[k] \notin accepted) - 1
    ELSE -1

HasExpanderAtFirstCell(r, cellIndex) == cellIndex = 0

hasSubRowExpander(r, cellIndex) ==
    cellIndex = findIndex(r.cells, { id \in ColumnIds : id # SELECTION_CELL_ID })

\* getSubRowStyle(): undefined is the empty object under the spread.
SubRowStyleShiftsExpandable(t, r, cellIndex) ==
    IF ~t.tableHasSubRows \/ ~hasSubRowExpander(r, cellIndex)
    THEN EmptyObject
    ELSE "paddingLeft" :> (16 + (r.depth + (IF r.canExpand THEN 1 ELSE 0)) * 35)

getSubRowStyle(t, r, cellIndex) ==
    IF ~t.tableHasSubRows \/ ~hasSubRowExpander(r, cellIndex)
    THEN EmptyObject
    ELSE "paddingLeft" :> (16 + (r.depth + (IF r.canExpand THEN 0 ELSE 1)) * 35)

\* getCellStyle(column, isTableResizing) of ./utils: the base style of a cell.
getCellStyle(id, isTableResizing) ==
    "flex" :> (IF isTableResizing THEN "1 1 145px" ELSE "0 0 145px")

\* cell.getCellProps({className, style}) of react-table.
cellElementProps(t, r, cellIndex) ==
    [ key |-> cellIndex,
      role |-> "cell",
      className |-> cx(<< <<"iui-cell", TRUE>> >>, cellClassName(columnId(r, cellIndex))),
      style |-> Spread(getCellStyle(columnId(r, cellIndex), t.isTableResizing),
                       getSubRowStyle(t, r, cellIndex)) ]

\* { ...tableInstance, cell, row: cell.row, value: cell.value, column: cell.column }
cellProps(t, r, cellIndex) ==
    [ state |-> [isTableResizing |-> t.isTableResizing],
      cell |-> cellIndex,
      row |-> r,
      value |-> <<"value", cellIndex>>,
      column |-> columnId(r, cellIndex) ]

ExpanderNode(t, r, cellIndex) ==
    [ node |-> "SubRowExpander", cell |-> cellIndex, isDisabled |-> t.isDisabled ]

\* cell.render('Cell')
CellNode(r, cellIndex) ==
    [ node |-> "Cell", cell |-> cellIndex, column |-> columnId(r, cellIndex) ]

CellContentForEveryAnchor(t, r, cellIndex) ==
    (IF t.tableHasSubRows /\ hasSubRowExpander(r, cellIndex)
     THEN << ExpanderNode(t, r, cellIndex) >> ELSE <<>>)
    \o << CellNode(r, cellIndex) >>

cellContent(t, r, cellIndex) ==
    (IF t.tableHasSubRows /\ hasSubRowExpander(r, cellIndex) /\ r.canExpand
     THEN << ExpanderNode(t, r, cellIndex) >> ELSE <<>>)
    \o << CellNode(r, cellIndex) >>

cellRendererProps(t, r, cellIndex) ==
    [ cellElementProps |-> cellElementProps(t, r, cellIndex),
      cellProps |-> cellProps(t, r, cellIndex),
      children |-> cellContent(t, r, cellIndex) ]

\* The fragment TableCell returns: the renderers it calls, in order, each
\* with the props it is given.
RenderBoth(t, r, cellIndex) ==
    (IF columnId(r, cellIndex) \in t.cellRenderer
     THEN << [by |-> "cellRenderer", args |-> cellRendererProps(t, r, cellIndex)] >>
     ELSE <<>>)
    \o << [by |-> "DefaultCell", args |-> cellRendererProps(t, r, cellIndex)] >>

Render(t, r, cellIndex) ==
    IF columnId(r, cellIndex) \in t.cellRenderer
    THEN << [by |-> "cellRenderer", args |-> cellRendererProps(t, r, cellIndex)] >>
    ELSE << [by |-> "DefaultCell", args |-> cellRendererProps(t, r, cellIndex)] >>

NotRenderedCell == [done |-> FALSE, hasSubRowExpander |-> FALSE, calls |-> <<>>]

CellSeqs == UNION { [1..n -> ColumnIds] : n \in 1..MaxCells }

Rows == [ depth : 0..MaxDepth, canExpand : BOOLEAN, cells : CellSeqs ]

Tables == [ tableHasSubRows : BOOLEAN, isDisabled : BOOLEAN, isTableResizing : BOOLEAN,
            cellRenderer : SUBSET {"name"} ]

CellIndexes(r) == 0..(Len(r.cells) - 1)

NoProps == "name" :> "Project A"

Idle == [type |-> "idle", props |-> EmptyObject]

InitTable ==
    /\ row \in Rows
    /\ table \in Tables
    /\ rendered = [i \in CellIndexes(row) |-> NotRenderedCell]
    /\ props = NoProps
    /\ ref = EmptyObject
    /\ element = Idle

TableCell(cellIndex) ==
    /\ cellIndex \in CellIndexes(row)
    /\ ~rendered[cellIndex].done
    /\ rendered' = [rendered EXCEPT ![cellIndex] =
                        [done |-> TRUE,
                         hasSubRowExpander |-> hasSubRowExpander(row, cellIndex),
                         calls |-> Render(table, row, cellIndex)]]
    /\ UNCHANGED <<props, ref, element, row, table>>

NextHeader == HeaderButton

NextTable == \E cellIndex \in 0..(MaxCells - 1) : TableCell(cellIndex)

SpecHeader == InitHeader /\ [][NextHeader]_vars

SpecTable == InitTable /\ [][NextTable]_vars

Init == InitHeader \/ InitTable

Next == NextHeader \/ NextTable

Spec == Init /\ [][Next]_vars

(***************************************************************************)
(* Properties of HeaderButton, checked under SpecHeader.                   *)
(***************************************************************************)
Range(s) == { s[i] : i \in DOMAIN s }

IsRendered == element.type \in {"SplitButton", "DropdownButton", "Button"}

\* The tokens of the rendered className that cx computed: the caller's
\* className is appended after them.
ComputedClasses ==
    LET cls == element.props.className
        own == IF "className" \in DOMAIN props THEN Len(props.className) ELSE 0
    IN  Range(SubSeq(cls, 1, Len(cls) - own))

ExpectedChildren ==
    << [tag |-> "div", className |-> <<>>, text |-> props.name] >>
    \o (IF "description" \in DOMAIN props
        THEN << [tag |-> "div", className |-> <<"iui-description">>,
                 text |-> props.description] >>
        ELSE <<>>)

\* C1: for every combination of menuItems and onClick exactly one of SplitButton,
\* DropdownButton and Button is rendered: SplitButton when both are given,
\* DropdownButton when menuItems is given without onClick, Button when
\* menuItems is not given.
C1_VariantTotalAndExclusive ==
    IsRendered =>
        LET menu == "menuItems" \in DOMAIN props
            click == "onClick" \in DOMAIN props
        IN  /\ (menu /\ click) => element.type = "SplitButton"
            /\ (menu /\ ~click) => element.type = "DropdownButton"
            /\ ~menu => element.type = "Button"

C1_Witness ==
    /\ element.type = "SplitButton"
    /\ "menuItems" \in DOMAIN props
    /\ "onClick" \in DOMAIN props
    /\ Len(props.menuItems) > 0

\* C4 (as stated): menuItems is forwarded only when the list is non-empty; an
\* empty list behaves as if menuItems were absent (plain variant, no menuItems
\* field), and a plain button never carries a menuItems field.
C4_EmptyMenuItemsBehaveAsAbsent ==
    IsRendered =>
        /\ ("menuItems" \in DOMAIN element.props) =>
               /\ "menuItems" \in DOMAIN props
               /\ Len(props.menuItems) > 0
        /\ ("menuItems" \in DOMAIN props /\ Len(props.menuItems) = 0) =>
               element.type = "Button"
        /\ element.type = "Button" => "menuItems" \notin DOMAIN element.props

\* C4 (amended): menuItems is forwarded, unchanged, exactly when the caller
\* gives the prop, an empty list included; a descriptor with an empty list is
\* classified as dropdown-menu or split-action; a plain button never carries
\* a menuItems field.
C4_MenuItemsForwardedWhenGiven ==
    IsRendered =>
        /\ ("menuItems" \in DOMAIN element.props) <=> ("menuItems" \in DOMAIN props)
        /\ ("menuItems" \in DOMAIN props) =>
               /\ element.props.menuItems = props.menuItems
               /\ element.type \in {"DropdownButton", "SplitButton"}
        /\ element.type = "Button" => "menuItems" \notin DOMAIN element.props

C4_Witness ==
    /\ element.type = "DropdownButton"
    /\ "menuItems" \in DOMAIN props
    /\ props.menuItems = <<>>
    /\ "menuItems" \in DOMAIN element.props

\* C5: a pass-through attribute that collides with a computed default
\* (styleType, aria-current) takes the caller's value, but children and
\* className are always the computed values.
C5_ChildrenAndClassNameNotOverridable ==
    IsRendered =>
        /\ \A k \in {"styleType", "aria-current", "onClick"} :
               (k \in DOMAIN props) =>
                   (k \in DOMAIN element.props /\ element.props[k] = props[k])
        /\ ("current" \in DOMAIN ref) => element.props.ref = ref
        /\ element.props.children = ExpectedChildren
        /\ LET cls == element.props.className
               own == IF "className" \in DOMAIN props THEN props.className ELSE <<>>
           IN  /\ Len(cls) >= Len(own) + 1
               /\ SubSeq(cls, Len(cls) - Len(own) + 1, Len(cls)) = own
               /\ cls[1] \in {"iui-header-button", "iui-header-split-button"}

\* C6 (as stated): a startIcon that is a valid element is forwarded with the
\* class iui-header-button-icon put before its own classes; a startIcon that
\* is not a valid element is forwarded unchanged.
C6_StartIconWrappedOrUntouched ==
    (IsRendered /\ "startIcon" \in DOMAIN props) =>
        /\ "startIcon" \in DOMAIN element.props
        /\ IF props.startIcon.valid
           THEN /\ element.props.startIcon.type = props.startIcon.type
                /\ element.props.startIcon.className =
                       <<"iui-header-button-icon">> \o props.startIcon.className
           ELSE element.props.startIcon = props.startIcon

\* C6 (amended): a startIcon that is a valid element is forwarded with the
\* class iui-header-button-icon put before its own classes; a startIcon that
\* is not a valid element is dropped (the forwarded startIcon is undefined).
C6_StartIconWrappedOrDropped ==
    IsRendered =>
        IF "startIcon" \in DOMAIN props /\ props.startIcon.valid
        THEN /\ "startIcon" \in DOMAIN element.props
             /\ element.props.startIcon.valid
             /\ element.props.startIcon.type = props.startIcon.type
             /\ element.props.startIcon.className =
                    <<"iui-header-button-icon">> \o props.startIcon.className
        ELSE "startIcon" \notin DOMAIN element.props

C6_Witness ==
    /\ IsRendered
    /\ "startIcon" \in DOMAIN props
    /\ ~props.startIcon.valid
    /\ "startIcon" \notin DOMAIN element.props

\* C7 (as stated): when isActive is true the rendered props carry the class
\* iui-active and aria-current = 'location'; when isActive is false or not
\* given the computed classes hold no iui-active and aria-current is omitted.
C7_ActiveClassAndAriaCurrent ==
    IsRendered =>
        IF "isActive" \in DOMAIN props /\ props.isActive
        THEN /\ "iui-active" \in ComputedClasses
             /\ "aria-current" \in DOMAIN element.props
             /\ element.props["aria-current"] = "location"
        ELSE /\ "iui-active" \notin ComputedClasses
             /\ "aria-current" \notin DOMAIN element.props

\* C7 (amended): the class iui-active is computed exactly when isActive is
\* true; aria-current is the caller's own aria-current attribute when one is
\* passed through, and otherwise 'location' when isActive is true and omitted
\* when isActive is false or not given.
C7_ActiveClassAndAriaCurrentUnlessPassed ==
    IsRendered =>
        LET active == "isActive" \in DOMAIN props /\ props.isActive
        IN  /\ ("iui-active" \in ComputedClasses) <=> active
            /\ IF "aria-current" \in DOMAIN props
               THEN /\ "aria-current" \in DOMAIN element.props
                    /\ element.props["aria-current"] = props["aria-current"]
               ELSE IF active
               THEN /\ "aria-current" \in DOMAIN element.props
                    /\ element.props["aria-current"] = "location"
               ELSE "aria-current" \notin DOMAIN element.props

C7_Witness ==
    /\ IsRendered
    /\ "isActive" \in DOMAIN props
    /\ props.isActive
    /\ "aria-current" \notin DOMAIN props
    /\ element.props["aria-current"] = "location"
    /\ "iui-active" \in ComputedClasses

\* C10: the computed base class agrees with the variant: exactly one of
\* iui-header-button and iui-header-split-button is computed, and it is
\* iui-header-split-button if and only if SplitButton is rendered.
C10_BaseClassAgreesWithVariant ==
    IsRendered =>
        /\ Cardinality(ComputedClasses
                       \cap {"iui-header-button", "iui-header-split-button"}) = 1
        /\ ("iui-header-split-button" \in ComputedClasses)
               <=> (element.type = "SplitButton")

C10_Witness ==
    /\ element.type = "SplitButton"
    /\ "iui-header-split-button" \in ComputedClasses
    /\ "iui-header-button" \notin ComputedClasses

(***************************************************************************)
(* Properties of TableCell, checked under SpecTable.                       *)
(***************************************************************************)
\* The 0-based positions of the cells of the row that are not in the
\* selection column.
NonSelection == { i \in DOMAIN rendered : row.cells[i + 1] # SELECTION_CELL_ID }

\* i is the position of the first cell that is not in the selection column.
IsAnchor(i) == i \in NonSelection /\ \A j \in NonSelection : i <= j

Done == { i \in DOMAIN rendered : rendered[i].done }

ArgsOf(i) == rendered[i].calls[1].args

StyleOf(i) == ArgsOf(i).cellElementProps.style

HasExpanderNode(i) ==
    \E n \in DOMAIN ArgsOf(i).children : ArgsOf(i).children[n].node = "SubRowExpander"

\* C2: the extra left padding is absent when the table has no sub-rows and for
\* every cell that is not the expansion anchor; for the anchor of a table with
\* sub-rows it is 16 + d*35 when the row can expand and 16 + (d+1)*35 when it
\* cannot, d being the depth of the row.
C2_SubRowPadding ==
    \A i \in Done :
        IF table.tableHasSubRows /\ IsAnchor(i)
        THEN /\ "paddingLeft" \in DOMAIN StyleOf(i)
             /\ StyleOf(i).paddingLeft =
                    IF row.canExpand THEN 16 + row.depth * 35
                    ELSE 16 + (row.depth + 1) * 35
        ELSE "paddingLeft" \notin DOMAIN StyleOf(i)

C2_Witness ==
    \E i \in Done :
        /\ table.tableHasSubRows
        /\ IsAnchor(i)
        /\ i > 0
        /\ ~row.canExpand
        /\ row.depth = MaxDepth
        /\ StyleOf(i).paddingLeft = 16 + (MaxDepth + 1) * 35

\* C3: for every ordering of the cells of a row, hasSubRowExpander is true of
\* exactly the cell at the position of the first cell whose column is not the
\* selection column, and of no cell when every cell is in the selection column.
C3_AnchorIsFirstNonSelectionCell ==
    /\ \A i \in Done : rendered[i].hasSubRowExpander <=> IsAnchor(i)
    /\ Cardinality({ i \in Done : rendered[i].hasSubRowExpander }) <= 1
    /\ (NonSelection = {}) => \A i \in Done : ~rendered[i].hasSubRowExpander

C3_Witness ==
    /\ Done = DOMAIN rendered
    /\ Len(row.cells) = 3
    /\ row.cells[1] = SELECTION_CELL_ID
    /\ row.cells[2] # SELECTION_CELL_ID
    /\ row.cells[3] = SELECTION_CELL_ID
    /\ rendered[1].hasSubRowExpander
    /\ ~rendered[0].hasSubRowExpander
    /\ ~rendered[2].hasSubRowExpander

\* C8: a column with a cellRenderer has it called exactly once, and DefaultCell
\* is not rendered; a column without one has DefaultCell rendered; either way
\* the renderer gets {cellElementProps, cellProps, children}, whose values do
\* not depend on which of the two renders.
C8_RendererDispatch ==
    \A i \in Done :
        LET calls == rendered[i].calls
            id == row.cells[i + 1]
        IN  /\ Len(calls) = 1
            /\ calls[1].by = IF id \in table.cellRenderer THEN "cellRenderer"
                             ELSE "DefaultCell"
            /\ DOMAIN calls[1].args = {"cellElementProps", "cellProps", "children"}
            /\ calls[1].args.cellProps =
                   [ state |-> [isTableResizing |-> table.isTableResizing],
                     cell |-> i, row |-> row, value |-> <<"value", i>>, column |-> id ]
            /\ calls[1].args.cellElementProps.className[1] = "iui-cell"
            /\ LET content == calls[1].args.children
               IN  /\ Len(content) \in {1, 2}
                   /\ content[Len(content)] = [node |-> "Cell", cell |-> i, column |-> id]

C8_Witness ==
    \E i, j \in Done :
        /\ rendered[i].calls[1].by = "cellRenderer"
        /\ rendered[j].calls[1].by = "DefaultCell"
        /\ row.cells[j + 1] # SELECTION_CELL_ID

\* C9: the SubRowExpander is rendered, before the value of the cell, if and
\* only if the table has sub-rows, the cell is the expansion anchor and the row
\* can expand; otherwise only the value of the cell is rendered. At most one
\* cell of a row renders an expander, and a cell that renders one has the
\* extra left padding 16 + depth*35.
C9_ExpanderOnlyOnExpandableAnchor ==
    /\ \A i \in Done :
           LET content == ArgsOf(i).children
               value == [node |-> "Cell", cell |-> i, column |-> row.cells[i + 1]]
           IN  IF table.tableHasSubRows /\ IsAnchor(i) /\ row.canExpand
               THEN /\ Len(content) = 2
                    /\ content[1].node = "SubRowExpander"
                    /\ content[1].cell = i
                    /\ content[2] = value
                    /\ "paddingLeft" \in DOMAIN StyleOf(i)
                    /\ StyleOf(i).paddingLeft = 16 + row.depth * 35
               ELSE content = << value >>
    /\ Cardinality({ i \in Done : HasExpanderNode(i) }) <= 1

C9_Witness ==
    /\ Done = DOMAIN rendered
    /\ Len(row.cells) = 3
    /\ row.cells[1] = SELECTION_CELL_ID
    /\ row.depth > 0
    /\ HasExpanderNode(1)
    /\ ~HasExpanderNode(0)
    /\ ~HasExpanderNode(2)

====
